---- MODULE Spec2Model ----
(***************************************************************************)
(* tcfinder: transmission cluster search over a phylo4 tree.               *)
(*                                                                         *)
(* The tree is the petgraph DiGraph<NodeW, ()> built by read_phylo4: a     *)
(* sequence of node weights (position = NodeIndex, counted from 1 here)    *)
(* and a sequence of edges <<source, target>> in insertion order.          *)
(* Labels are strings in the program; here a label is a natural number     *)
(* that stands for the rank of the string in lexicographic order.          *)
(* A proportion (f64) is kept as the exact ratio <<numerator, denominator>>*)
(* of the two integers it is computed from.                                *)
(***************************************************************************)
EXTENDS Integers, Sequences, FiniteSets, TLC

VARIABLES records, tree, targets, threshold, pc, queue, results, log, labels,
          run, prev

vars == <<records, tree, targets, threshold, pc, queue, results, log, labels,
          run, prev>>

\* Bounds of the inputs
MaxNodes == 6
MaxSize == 2
MaxRoots == 2
MaxExtractNodes == 5
MaxForest == 3

\* minimum_size and minimum_prop when the command line gives none
DefaultSize == 2
DefaultProp == <<9, 10>>

\* Option<NodeIndex>::None
None == 0

(***************************************************************************)
(* petgraph primitives as the program uses them                            *)
(***************************************************************************)
node_indices(g) == 1..Len(g.nodes)

\* edges_directed(node, Incoming).next().is_none()
NoIncoming(g, node) == \A e \in 1..Len(g.edges) : g.edges[e][2] # node

\* edges_directed(node, Outgoing).map(|edge| edge.target()): the adjacency
\* list of a node starts at the edge added last
RECURSIVE OutgoingUpTo(_, _, _)
OutgoingUpTo(g, node, k) ==
    IF k = 0 THEN <<>>
    ELSE (IF g.edges[k][1] = node THEN <<g.edges[k][2]>> ELSE <<>>)
         \o OutgoingUpTo(g, node, k - 1)

edges_directed_outgoing(g, node) == OutgoingUpTo(g, node, Len(g.edges))

(***************************************************************************)
(* io.rs: read_phylo4                                                      *)
(***************************************************************************)
\* first pass: one node per row, is_target false
NodeOfRow(row) ==
    [index |-> row.node, label |-> row.label,
     is_tip |-> (row.nodetype = "tip"), is_target |-> FALSE]

\* tree_index: the NodeIndex of the last row that carries the identifier
tree_index(recs, id) ==
    CHOOSE i \in 1..Len(recs) :
        /\ recs[i].node = id
        /\ \A j \in (i + 1)..Len(recs) : recs[j].node # id

\* second pass: one edge per row whose ancestor is not 0, in row order
RECURSIVE EdgesUpTo(_, _)
EdgesUpTo(recs, k) ==
    IF k = 0 THEN <<>>
    ELSE EdgesUpTo(recs, k - 1)
         \o (IF recs[k].ancestor # 0
             THEN << <<tree_index(recs, recs[k].ancestor),
                       tree_index(recs, recs[k].node)>> >>
             ELSE <<>>)

read_phylo4(recs) ==
    [nodes |-> [i \in 1..Len(recs) |-> NodeOfRow(recs[i])],
     edges |-> EdgesUpTo(recs, Len(recs))]

(***************************************************************************)
(* clusters.rs                                                             *)
(***************************************************************************)
\* f64::round(prop * size as f64) as usize, halves away from zero
RoundMul(prop, size) == (2 * prop[1] * size + prop[2]) \div (2 * prop[2])

\* CladeTargetStats::threshold
CladeTargetStats_threshold(prop, size) ==
    [prop |-> prop, size |-> size, targets |-> RoundMul(prop, size)]

\* CladeTargetStats::new
CladeTargetStats_new(size, n_targets) ==
    [prop |-> <<n_targets, size>>, size |-> size, targets |-> n_targets]

\* a >= b on f64: 0/0 is NaN and compares false
PropGE(a, b) == a[2] # 0 /\ b[2] # 0 /\ a[1] * b[2] >= b[1] * a[2]

\* targets.contains(&weight.label)
Contains(list, label) == \E i \in 1..Len(list) : list[i] = label

annotate_targets(g, tgts) ==
    [g EXCEPT !.nodes =
        [i \in 1..Len(g.nodes) |->
            [g.nodes[i] EXCEPT !.is_target = Contains(tgts, g.nodes[i].label)]]]

find_root(g) ==
    IF \E v \in node_indices(g) : NoIncoming(g, v)
    THEN CHOOSE v \in node_indices(g) :
            /\ NoIncoming(g, v)
            /\ \A w \in node_indices(g) : NoIncoming(g, w) => v <= w
    ELSE None

\* Dfs: pop a node; a node seen for the first time pushes its undiscovered
\* neighbours and is yielded
RECURSIVE DfsLeaves(_, _, _, _)
DfsLeaves(g, stack, discovered, leaves) ==
    IF stack = <<>> THEN leaves
    ELSE LET node == stack[Len(stack)]
             rest == SubSeq(stack, 1, Len(stack) - 1)
         IN  IF node \in discovered
             THEN DfsLeaves(g, rest, discovered, leaves)
             ELSE LET seen == discovered \cup {node}
                      IsNew(s) == s \notin seen
                  IN  DfsLeaves(g,
                                rest \o SelectSeq(edges_directed_outgoing(g, node), IsNew),
                                seen,
                                IF g.nodes[node].is_tip
                                THEN Append(leaves, node) ELSE leaves)

get_descendant_leaves(g, node) == DfsLeaves(g, <<node>>, {}, <<>>)

calculate_clade_stats(g, node) ==
    LET tips == get_descendant_leaves(g, node)
        IsTarget(t) == g.nodes[t].is_target
    IN  CladeTargetStats_new(Len(tips), Len(SelectSeq(tips, IsTarget)))

\* the qualification test without its size half
Qualifies_NoSize(stats, thr) == PropGE(stats.prop, thr.prop)

\* the qualification test without its proportion half
Qualifies_NoProp(stats, thr) == stats.size >= thr.size

\* the qualification test with || for &&
Qualifies_Or(stats, thr) == PropGE(stats.prop, thr.prop) \/ stats.size >= thr.size

\* the prune test with <= for <
Pruned_OffByOne(stats, thr) == stats.targets <= thr.targets

\* the two tests of tcfind
Qualifies(stats, thr) == PropGE(stats.prop, thr.prop) /\ stats.size >= thr.size

Pruned(stats, thr) == stats.targets < thr.targets

Decision(stats, thr) ==
    IF Qualifies(stats, thr) THEN "qualifies"
    ELSE IF Pruned(stats, thr) THEN "skip"
    ELSE "enqueue"

\* children_stats: the internal children of a node
InternalChildren(g, node) ==
    LET Internal(c) == ~g.nodes[c].is_tip
    IN  SelectSeq(edges_directed_outgoing(g, node), Internal)

\* the root is pushed to results and enqueued as well
CheckRoot_KeepsSearching(root, d) ==
    [results |-> IF d = "qualifies" THEN <<root>> ELSE <<>>,
     queue |-> IF d \in {"enqueue", "qualifies"} THEN <<root>> ELSE <<>>,
     log |-> <<[node |-> root, event |-> d]>>]

\* a child is pushed to results and enqueued as well
CheckChild_KeepsSearching(acc, child, d) ==
    [results |-> IF d = "qualifies" THEN Append(acc.results, child) ELSE acc.results,
     queue |-> IF d \in {"enqueue", "qualifies"} THEN Append(acc.queue, child)
               ELSE acc.queue,
     log |-> Append(acc.log, [node |-> child, event |-> d])]

\* a pruned child is enqueued all the same
CheckChild_EnqueuesSkipped(acc, child, d) ==
    [results |-> IF d = "qualifies" THEN Append(acc.results, child) ELSE acc.results,
     queue |-> IF d \in {"enqueue", "skip"} THEN Append(acc.queue, child)
               ELSE acc.queue,
     log |-> Append(acc.log, [node |-> child, event |-> d])]

\* the if / else if / else on the root: push to results, return, or enqueue
CheckRoot(root, d) ==
    [results |-> IF d = "qualifies" THEN <<root>> ELSE <<>>,
     queue |-> IF d = "enqueue" THEN <<root>> ELSE <<>>,
     log |-> <<[node |-> root, event |-> d]>>]

\* the if / else if / else on one child: push to results, drop, or enqueue
CheckChild(acc, child, d) ==
    [results |-> IF d = "qualifies" THEN Append(acc.results, child) ELSE acc.results,
     queue |-> IF d = "enqueue" THEN Append(acc.queue, child) ELSE acc.queue,
     log |-> Append(acc.log, [node |-> child, event |-> d])]

\* the for loop over children_stats, from child k on
RECURSIVE CheckChildren(_, _, _, _, _)
CheckChildren(g, thr, children, k, acc) ==
    IF k > Len(children) THEN acc
    ELSE CheckChildren(g, thr, children, k + 1,
            CheckChild(acc, children[k],
                       Decision(calculate_clade_stats(g, children[k]), thr)))

\* lexicographic order of Vec<String>
RECURSIVE LexLE(_, _)
LexLE(a, b) ==
    IF a = <<>> THEN TRUE
    ELSE IF b = <<>> THEN FALSE
    ELSE IF a[1] # b[1] THEN a[1] < b[1]
    ELSE LexLE(Tail(a), Tail(b))

\* cluster_labels.sort()
RECURSIVE InsertLabel(_, _)
InsertLabel(s, x) ==
    IF s = <<>> THEN <<x>>
    ELSE IF x <= s[1] THEN <<x>> \o s
    ELSE <<s[1]>> \o InsertLabel(Tail(s), x)

RECURSIVE SortLabels(_)
SortLabels(s) ==
    IF s = <<>> THEN <<>> ELSE InsertLabel(SortLabels(Tail(s)), s[1])

\* labels.sort()
RECURSIVE InsertList(_, _)
InsertList(s, x) ==
    IF s = <<>> THEN <<x>>
    ELSE IF LexLE(x, s[1]) THEN <<x>> \o s
    ELSE <<s[1]>> \o InsertList(Tail(s), x)

RECURSIVE SortLists(_)
SortLists(s) ==
    IF s = <<>> THEN <<>> ELSE InsertList(SortLists(Tail(s)), s[1])

\* the labels of a cluster without cluster_labels.sort()
ClusterLabels_Unsorted(g, node) ==
    LET tips == get_descendant_leaves(g, node)
    IN  [i \in 1..Len(tips) |-> g.nodes[tips[i]].label]

ClusterLabels(g, node) ==
    LET tips == get_descendant_leaves(g, node)
    IN  SortLabels([i \in 1..Len(tips) |-> g.nodes[tips[i]].label])

\* the label lists without labels.sort()
extract_clade_tip_labels_Unsorted(g, nodes) ==
    [i \in 1..Len(nodes) |-> ClusterLabels(g, nodes[i])]

extract_clade_tip_labels(g, nodes) ==
    SortLists([i \in 1..Len(nodes) |-> ClusterLabels(g, nodes[i])])

(***************************************************************************)
(* Inputs                                                                  *)
(***************************************************************************)
Max(a, b) == IF a >= b THEN a ELSE b

\* ancestor columns of the rooted trees on n nodes, nodes numbered level by
\* level: node 1 is the root (ancestor 0), every other node has one earlier
\* ancestor
RECURSIVE LevelShapes(_)
LevelShapes(n) ==
    IF n = 1 THEN {<<0>>}
    ELSE UNION {{Append(s, p) : p \in Max(1, s[n - 1])..(n - 1)} : s \in LevelShapes(n - 1)}

\* the label of a node: distinct labels, not in the order of the identifiers
LabelOf(id) == (id * 4) % 11

\* the rows of a file, in the order of the identifiers; a node is internal
\* when some row names it as ancestor
RowsOf(anc) ==
    [i \in 1..Len(anc) |->
        [label |-> LabelOf(i), node |-> i, ancestor |-> anc[i],
         nodetype |-> IF \E j \in 1..Len(anc) : anc[j] = i
                      THEN "internal" ELSE "tip"]]

WellFormedRecords == UNION {{RowsOf(anc) : anc \in LevelShapes(n)} : n \in 1..MaxNodes}

\* any ancestor column on up to MaxForest rows: forests and cycles included
AnyRecords == UNION {{RowsOf(anc) : anc \in [1..n -> 0..n]} : n \in 1..MaxForest}

\* other row orders of a file of n rows: last row first, and first row last
RowOrders(n) ==
    {[i \in 1..n |-> n + 1 - i], [i \in 1..n |-> (i % n) + 1]} \ {[i \in 1..n |-> i]}

Reordered(recs, order) == [i \in 1..Len(recs) |-> recs[order[i]]]

\* a set of labels as a list
RECURSIVE ListOf(_)
ListOf(S) ==
    IF S = {} THEN <<>>
    ELSE LET x == CHOOSE y \in S : \A z \in S : y <= z
         IN  <<x>> \o ListOf(S \ {x})

TipRows(recs) == {j \in 1..Len(recs) : recs[j].nodetype = "tip"}

\* target lists that name tips; of the tips of one parent, which are alike
\* but for their labels, the first ones are the targets
TipTargetLists(recs) ==
    {ListOf({recs[i].label : i \in S}) :
        S \in {T \in SUBSET TipRows(recs) :
                  \A i, j \in TipRows(recs) :
                      (i < j /\ recs[i].ancestor = recs[j].ancestor /\ j \in T) => i \in T}}

AllLabels(recs) == {recs[i].label : i \in 1..Len(recs)}

\* minimum proportions: quarters, which f64 holds exactly, so that the ratio
\* comparison and the rounding of prop * size are those of the program
Props == {<<1, 4>>, <<1, 2>>, <<3, 4>>, <<1, 1>>}

Thresholds == {CladeTargetStats_threshold(p, s) : p \in Props, s \in 0..MaxSize}

DefaultThreshold == CladeTargetStats_threshold(DefaultProp, DefaultSize)

\* lists of up to MaxRoots nodes of a graph of n nodes
NodeLists(n) == UNION {[1..k -> 1..n] : k \in 0..MaxRoots}

\* the permutations of a list
Rearrangements(s) ==
    {[i \in 1..Len(s) |-> s[f[i]]] :
        f \in {h \in [1..Len(s) -> 1..Len(s)] : \A a, b \in 1..Len(s) : h[a] = h[b] => a = b}}

(***************************************************************************)
(* The run of the program: annotate, tcfind, extract                       *)
(***************************************************************************)
NoPrev == [labels |-> <<>>, found |-> <<>>]

\* the file is read, the threshold built; the target list names tips
Init ==
    /\ records \in WellFormedRecords
    /\ tree = read_phylo4(records)
    /\ targets \in TipTargetLists(records)
    /\ threshold \in Thresholds
    /\ pc = "annotate"
    /\ queue = <<>>
    /\ results = <<>>
    /\ log = <<>>
    /\ labels = <<>>
    /\ run = 1
    /\ prev = NoPrev

Annotate ==
    /\ pc = "annotate"
    /\ tree' = annotate_targets(tree, targets)
    /\ pc' = "tcfind"
    /\ UNCHANGED <<records, targets, threshold, queue, results, log, labels, run, prev>>

\* tcfind up to the while loop: find the root (unwrap panics on None) and
\* check it
TcfindRoot ==
    /\ pc = "tcfind"
    /\ LET root == find_root(tree)
       IN  IF root = None
           THEN /\ pc' = "panic"
                /\ UNCHANGED <<queue, results, log>>
           ELSE LET d == Decision(calculate_clade_stats(tree, root), threshold)
                    out == CheckRoot(root, d)
                IN  /\ results' = out.results
                    /\ queue' = out.queue
                    /\ log' = out.log
                    /\ pc' = IF d = "skip" THEN "extract" ELSE "loop"
    /\ UNCHANGED <<records, tree, targets, threshold, labels, run, prev>>

\* one turn of the while loop: pop the front, check its internal children
TcfindExpand ==
    /\ pc = "loop"
    /\ queue # <<>>
    /\ LET node == Head(queue)
           out == CheckChildren(tree, threshold, InternalChildren(tree, node), 1,
                                [results |-> results, queue |-> Tail(queue),
                                 log |-> Append(log, [node |-> node, event |-> "expand"])])
       IN  /\ results' = out.results
           /\ queue' = out.queue
           /\ log' = out.log
    /\ UNCHANGED <<records, tree, targets, threshold, pc, labels, run, prev>>

\* the queue is empty: tcfind returns results
TcfindReturn ==
    /\ pc = "loop"
    /\ queue = <<>>
    /\ pc' = "extract"
    /\ UNCHANGED <<records, tree, targets, threshold, queue, results, log, labels, run, prev>>

Extract ==
    /\ pc = "extract"
    /\ labels' = extract_clade_tip_labels(tree, results)
    /\ pc' = "done"
    /\ UNCHANGED <<records, tree, targets, threshold, queue, results, log, run, prev>>

\* the clusters of the run in the order tcfind found them
Found == [i \in 1..Len(results) |-> ClusterLabels(tree, results[i])]

\* the same file with its rows in another order is read and run again
Reorder ==
    /\ pc = "done"
    /\ run = 1
    /\ \E o \in RowOrders(Len(records)) :
          /\ records' = Reordered(records, o)
          /\ tree' = read_phylo4(records')
    /\ prev' = [labels |-> labels, found |-> Found]
    /\ run' = 2
    /\ pc' = "annotate"
    /\ queue' = <<>>
    /\ results' = <<>>
    /\ log' = <<>>
    /\ labels' = <<>>
    /\ UNCHANGED <<targets, threshold>>

Next == Annotate \/ TcfindRoot \/ TcfindExpand \/ TcfindReturn \/ Extract \/ Reorder

Spec == Init /\ [][Next]_vars

(***************************************************************************)
(* extract_clade_tip_labels on any list of nodes                           *)
(***************************************************************************)
ExtractRecords ==
    UNION {{RowsOf(anc) : anc \in LevelShapes(n)} : n \in 1..MaxExtractNodes}

InitExtract ==
    /\ records \in ExtractRecords
    /\ tree = read_phylo4(records)
    /\ targets = <<>>
    /\ threshold = DefaultThreshold
    /\ pc = "extract"
    /\ queue = <<>>
    /\ results \in NodeLists(Len(records))
    /\ log = <<>>
    /\ labels = <<>>
    /\ run = 1
    /\ prev = NoPrev

\* the same nodes in another order (or the same order) are extracted again
Shuffle ==
    /\ pc = "done"
    /\ run = 1
    /\ results' \in Rearrangements(results)
    /\ prev' = [labels |-> labels, found |-> Found]
    /\ run' = 2
    /\ pc' = "extract"
    /\ labels' = <<>>
    /\ UNCHANGED <<records, tree, targets, threshold, queue, log>>

NextExtract == Extract \/ Shuffle

SpecExtract == InitExtract /\ [][NextExtract]_vars

(***************************************************************************)
(* find_root on any input file                                             *)
(***************************************************************************)
InitInput ==
    /\ records \in AnyRecords
    /\ tree = read_phylo4(records)
    /\ targets = <<>>
    /\ threshold = DefaultThreshold
    /\ pc = "annotate"
    /\ queue = <<>>
    /\ results = <<>>
    /\ log = <<>>
    /\ labels = <<>>
    /\ run = 1
    /\ prev = NoPrev

NextInput == Annotate \/ TcfindRoot

SpecInput == InitInput /\ [][NextInput]_vars

(***************************************************************************)
(* annotate_targets with any target list                                   *)
(***************************************************************************)
InitAnnotate ==
    /\ records \in WellFormedRecords
    /\ tree = read_phylo4(records)
    \* any list of labels of the file, and of a label (0) that no row carries
    /\ targets \in {ListOf(S) : S \in SUBSET (AllLabels(records) \cup {0})}
    /\ threshold = DefaultThreshold
    /\ pc = "annotate"
    /\ queue = <<>>
    /\ results = <<>>
    /\ log = <<>>
    /\ labels = <<>>
    /\ run = 1
    /\ prev = NoPrev

NextAnnotate == Annotate

SpecAnnotate == InitAnnotate /\ [][NextAnnotate]_vars

(***************************************************************************)
(* main.rs: tcfind of the earlier revision, run after the current one on   *)
(* the same annotated tree                                                 *)
(***************************************************************************)
\* CladeTargetStats { prop, size }: the threshold carries no target count
CladeTargetStats_main(prop, size) == [prop |-> prop, size |-> size]

\* calculate_clade_stats: prop = n_targets / n_tips, size = n_tips
calculate_clade_stats_main(g, node) ==
    LET tips == get_descendant_leaves(g, node)
        IsTarget(t) == g.nodes[t].is_target
    IN  CladeTargetStats_main(<<Len(SelectSeq(tips, IsTarget)), Len(tips)>>, Len(tips))

\* stats.prop * (stats.size as f64) < (threshold.size as f64), the product
\* of the exact ratio; NaN compares false
Pruned_main(stats, thr) ==
    stats.prop[2] # 0 /\ stats.prop[1] * stats.size < thr.size * stats.prop[2]

Decision_main(stats, thr) ==
    IF Qualifies(stats, thr) THEN "qualifies"
    ELSE IF Pruned_main(stats, thr) THEN "skip"
    ELSE "enqueue"

RECURSIVE CheckChildren_main(_, _, _, _, _)
CheckChildren_main(g, thr, children, k, acc) ==
    IF k > Len(children) THEN acc
    ELSE CheckChildren_main(g, thr, children, k + 1,
            CheckChild(acc, children[k],
                       Decision_main(calculate_clade_stats_main(g, children[k]), thr)))

\* the earlier revision is given the same tree, proportion and size
Revert ==
    /\ pc = "done"
    /\ run = 1
    /\ prev' = [labels |-> labels, found |-> Found, results |-> results, log |-> log]
    /\ threshold' = CladeTargetStats_main(threshold.prop, threshold.size)
    /\ run' = 2
    /\ pc' = "tcfind_main"
    /\ queue' = <<>>
    /\ results' = <<>>
    /\ log' = <<>>
    /\ labels' = <<>>
    /\ UNCHANGED <<records, tree, targets>>

TcfindRoot_main ==
    /\ pc = "tcfind_main"
    /\ LET root == find_root(tree)
       IN  IF root = None
           THEN /\ pc' = "panic"
                /\ UNCHANGED <<queue, results, log>>
           ELSE LET d == Decision_main(calculate_clade_stats_main(tree, root), threshold)
                    out == CheckRoot(root, d)
                IN  /\ results' = out.results
                    /\ queue' = out.queue
                    /\ log' = out.log
                    /\ pc' = IF d = "skip" THEN "extract" ELSE "loop_main"
    /\ UNCHANGED <<records, tree, targets, threshold, labels, run, prev>>

TcfindExpand_main ==
    /\ pc = "loop_main"
    /\ queue # <<>>
    /\ LET node == Head(queue)
           out == CheckChildren_main(tree, threshold, InternalChildren(tree, node), 1,
                                     [results |-> results, queue |-> Tail(queue),
                                      log |-> Append(log, [node |-> node, event |-> "expand"])])
       IN  /\ results' = out.results
           /\ queue' = out.queue
           /\ log' = out.log
    /\ UNCHANGED <<records, tree, targets, threshold, pc, labels, run, prev>>

TcfindReturn_main ==
    /\ pc = "loop_main"
    /\ queue = <<>>
    /\ pc' = "extract"
    /\ UNCHANGED <<records, tree, targets, threshold, queue, results, log, labels, run, prev>>

NextRevisions ==
    \/ Annotate \/ TcfindRoot \/ TcfindExpand \/ TcfindReturn \/ Extract
    \/ Revert \/ TcfindRoot_main \/ TcfindExpand_main \/ TcfindReturn_main

SpecRevisions == Init /\ [][NextRevisions]_vars

(***************************************************************************)
(* The search alone, run to its end                                        *)
(***************************************************************************)
NextSearch == Annotate \/ TcfindRoot \/ TcfindExpand \/ TcfindReturn \/ Extract

\* the program is one thread that runs on until it returns
SpecSearch == Init /\ [][NextSearch]_vars /\ WF_vars(NextSearch)

(***************************************************************************)
(* The tree as the claims speak of it: parents, ancestors, clades          *)
(***************************************************************************)
Nodes == node_indices(tree)

TheRoot == CHOOSE v \in Nodes : NoIncoming(tree, v)

IsRoot(v) == NoIncoming(tree, v)

ParentOf(v) == tree.edges[CHOOSE e \in 1..Len(tree.edges) : tree.edges[e][2] = v][1]

\* a is a proper ancestor of d
RECURSIVE IsAncestor(_, _)
IsAncestor(a, d) ==
    /\ ~IsRoot(d)
    /\ (ParentOf(d) = a \/ IsAncestor(a, ParentOf(d)))

IsTipNode(v) == tree.nodes[v].is_tip

\* the tips of the clade of v, and the targets among them
CladeTips(v) == {t \in Nodes : IsTipNode(t) /\ (t = v \/ IsAncestor(v, t))}

CladeSize(v) == Cardinality(CladeTips(v))

CladeTargets(v) == Cardinality({t \in CladeTips(v) : tree.nodes[t].is_target})

\* the qualification rule: size >= threshold.size and targets/size >= threshold.prop
QualifiesAt(v) ==
    /\ CladeSize(v) >= threshold.size
    /\ CladeTargets(v) * threshold.prop[2] >= threshold.prop[1] * CladeSize(v)

InResults(v) == \E i \in 1..Len(results) : results[i] = v

Logged(v, e) == \E i \in 1..Len(log) : log[i] = [node |-> v, event |-> e]

\* tcfind has returned
Returned == pc = "extract"

\* v is the node closest to the root, on the paths through it, that qualifies
FirstQualifying(v) == QualifiesAt(v) /\ \A a \in Nodes : IsAncestor(a, v) => ~QualifiesAt(a)

(***************************************************************************)
(* Claims                                                                  *)
(***************************************************************************)
\* C1 Disjointness: the list returned by tcfind holds no node twice and no
\* two nodes of which one is an ancestor of the other.
C1_Disjoint ==
    Returned => \A i, j \in 1..Len(results) :
        i # j => /\ results[i] # results[j]
                 /\ ~IsAncestor(results[i], results[j])

\* tcfind returned two clades
C1_Witness == Returned /\ Len(results) >= 2

\* C2 Qualification soundness: every node tcfind returns, the root or a node
\* from the queue loop, has size >= threshold.size and targets/size >=
\* threshold.prop, counted over the tips of its subtree.
C2_Sound == Returned => \A i \in 1..Len(results) : QualifiesAt(results[i])

\* a clade below the root is returned under a threshold that some clades miss
C2_Witness ==
    /\ Returned
    /\ \E i \in 1..Len(results) : ~IsRoot(results[i])
    /\ threshold.size >= 2
    /\ threshold.prop[1] > 0

\* C3 as stated: on every root-to-leaf path the qualifying node closest to
\* the root is in the result, tips included.
C3_FirstOnPath_AsStated ==
    Returned => \A v \in Nodes : FirstQualifying(v) => InResults(v)

\* C3 amended: on every root-to-leaf path, the qualifying node closest to
\* the root among the root and the internal nodes is in the result; the
\* prune rule never discards it.
C3_FirstInternalOnPath ==
    Returned =>
        \A v \in Nodes :
            /\ IsRoot(v) \/ ~IsTipNode(v)
            /\ QualifiesAt(v)
            /\ \A a \in Nodes : IsAncestor(a, v) => ~QualifiesAt(a)
            => InResults(v)

\* a clade two levels below the root is the first to qualify on its paths
C3_Witness ==
    /\ Returned
    /\ \E v \in Nodes :
          /\ ~IsTipNode(v) /\ ~IsRoot(v) /\ ~IsRoot(ParentOf(v))
          /\ FirstQualifying(v)

\* C4 Maximality: the parent of a returned node that is not the root does
\* not qualify, and was enqueued for expansion.
C4_Maximal ==
    Returned => \A i \in 1..Len(results) :
        ~IsRoot(results[i]) =>
            /\ ~QualifiesAt(ParentOf(results[i]))
            /\ Logged(ParentOf(results[i]), "enqueue")
            /\ ~InResults(ParentOf(results[i]))
            /\ ~Logged(ParentOf(results[i]), "skip")

\* a node whose parent is not the root is returned
C4_Witness ==
    /\ Returned
    /\ \E i \in 1..Len(results) : ~IsRoot(results[i]) /\ ~IsRoot(ParentOf(results[i]))

\* C5 Pruning soundness: a node whose subtree holds fewer target tips than
\* threshold.targets is not in the result, and neither is any descendant.
C5_PruneSound ==
    Returned => \A i \in 1..Len(results) :
        \A v \in Nodes :
            (v = results[i] \/ IsAncestor(v, results[i])) =>
                CladeTargets(v) >= threshold.targets

\* a subtree was pruned in a run that returned another clade
C5_Witness ==
    /\ Returned
    /\ results # <<>>
    /\ \E v \in Nodes : Logged(v, "skip") /\ CladeTargets(v) < threshold.targets

\* C6 Determinism under reordering: the same tree read from a file with its
\* rows in another order gives the same final list of label lists.
C6_SameLabels == (pc = "done" /\ run = 2) => labels = prev.labels

\* the second run found the same two or more clusters in another order
C6_Witness ==
    /\ pc = "done" /\ run = 2
    /\ Len(results) >= 2
    /\ Found # prev.found

\* sequence comparison of two label lists
SeqLE(a, b) ==
    \/ /\ Len(a) <= Len(b)
       /\ \A k \in 1..Len(a) : a[k] = b[k]
    \/ \E k \in 1..Len(a) :
          /\ k <= Len(b)
          /\ a[k] < b[k]
          /\ \A m \in 1..(k - 1) : a[m] = b[m]

Ascending(list) == \A k \in 1..(Len(list) - 1) : list[k] <= list[k + 1]

\* list holds exactly the labels of the tips of the clade of v
HoldsCladeLabels(list, v) ==
    /\ Len(list) = CladeSize(v)
    /\ {list[k] : k \in 1..Len(list)} = {tree.nodes[t].label : t \in CladeTips(v)}

\* C7 extract_clade_tip_labels gives one list per root, holding the labels of
\* the tips of the root's subtree in ascending order, the outer list in
\* ascending sequence order; the same roots in any order, or extracted
\* again, give the identical output.
C7_Extract ==
    pc = "done" =>
        /\ Len(labels) = Len(results)
        /\ \A k \in 1..Len(labels) : Ascending(labels[k])
        /\ \A k \in 1..(Len(labels) - 1) : SeqLE(labels[k], labels[k + 1])
        /\ \E f \in [1..Len(results) -> 1..Len(labels)] :
              /\ \A a, b \in 1..Len(results) : f[a] = f[b] => a = b
              /\ \A a \in 1..Len(results) : HoldsCladeLabels(labels[f[a]], results[a])
        /\ run = 2 => labels = prev.labels

\* two different clades of two or more tips were extracted in both orders
C7_Witness ==
    /\ pc = "done" /\ run = 2
    /\ Len(results) = 2
    /\ Found # prev.found
    /\ \A k \in 1..Len(labels) : Len(labels[k]) >= 2

NoTargetTips == \A v \in Nodes : IsTipNode(v) => ~tree.nodes[v].is_target

RootSkipped == log = <<[node |-> TheRoot, event |-> "skip"]>>

\* C8 as stated: with no target tip and threshold.prop > 0, tcfind returns
\* the empty list by pruning at the root, for every threshold.size: the root
\* is never enqueued and no child is evaluated.
C8_PrunedAtRoot_AsStated ==
    (Returned /\ NoTargetTips /\ threshold.prop[1] > 0) =>
        results = <<>> /\ RootSkipped

\* C8 amended: with no target tip and threshold.prop > 0, tcfind returns the
\* empty list for every threshold.size; it prunes at the root exactly when
\* threshold.targets >= 1, and when threshold.targets = 0 the root is
\* enqueued and expanded.
C8_EmptyResult ==
    (Returned /\ NoTargetTips /\ threshold.prop[1] > 0) =>
        /\ results = <<>>
        /\ threshold.targets >= 1 => RootSkipped
        /\ threshold.targets = 0 =>
              Logged(TheRoot, "enqueue") /\ Logged(TheRoot, "expand")

\* a tree with internal nodes below the root and no target is pruned at the root
C8_Witness ==
    /\ Returned /\ NoTargetTips /\ threshold.prop[1] > 0
    /\ RootSkipped
    /\ \E v \in Nodes : ~IsRoot(v) /\ ~IsTipNode(v)

\* the nodes with no incoming edge
Rootless == {v \in Nodes : NoIncoming(tree, v)}

\* C9 as stated: find_root gives the node with no incoming edge when there
\* is exactly one, and a failure, never an arbitrary node, when there is
\* none or more than one (the only failure of tcfind being the panic of
\* unwrap).
C9_RootOrFailure_AsStated ==
    pc \notin {"annotate", "tcfind"} =>
        IF Cardinality(Rootless) = 1
        THEN pc # "panic" /\ log[1].node \in Rootless
        ELSE pc = "panic"

\* C10 as stated: after annotate_targets a node is flagged is_target iff it
\* is a tip whose label is in the target list, an internal node never; the
\* indices, labels, tip flags and edges are as read.
C10_TargetsAreTips_AsStated ==
    pc = "tcfind" =>
        /\ \A v \in Nodes :
              tree.nodes[v].is_target <=> (IsTipNode(v) /\ Contains(targets, tree.nodes[v].label))
        /\ tree.edges = read_phylo4(records).edges
        /\ Len(tree.nodes) = Len(records)
        /\ \A v \in Nodes :
              /\ tree.nodes[v].index = records[v].node
              /\ tree.nodes[v].label = records[v].label
              /\ tree.nodes[v].is_tip = (records[v].nodetype = "tip")

\* C11 as stated: with prop the exact ratio targets/size, the prune test of
\* the earlier revision and that of the current one decide alike at every
\* node, so both tcfind return the same clade roots.
C11_SameRoots_AsStated ==
    (pc = "extract" /\ run = 2) => results = prev.results

\* the entries of the log that are about v with an event of E
LogCount(v, E) == Cardinality({i \in 1..Len(log) : log[i].node = v /\ log[i].event \in E})

Decisions == {"qualifies", "skip", "enqueue"}

\* each node is decided, enqueued and expanded at most once; the queue holds
\* enqueued nodes not yet expanded, none twice; below a node that qualified
\* or was pruned nothing is decided, enqueued or expanded; tcfind returns
\* with the queue empty
SearchBounded ==
    /\ \A v \in Nodes :
          /\ LogCount(v, Decisions) <= 1
          /\ LogCount(v, {"enqueue"}) <= 1
          /\ LogCount(v, {"expand"}) <= 1
    /\ \A i, j \in 1..Len(queue) : i # j => queue[i] # queue[j]
    /\ \A i \in 1..Len(queue) :
          Logged(queue[i], "enqueue") /\ ~Logged(queue[i], "expand")
    /\ \A i, j \in 1..Len(log) :
          log[i].event \in {"qualifies", "skip"} => ~IsAncestor(log[i].node, log[j].node)
    /\ pc \in {"extract", "done"} => queue = <<>>
    /\ pc # "panic"

\* the nodes the loop has not expanded
Unexpanded == {v \in Nodes : ~Logged(v, "expand")}

\* a step taken in the loop either expands one more node and stays in the
\* loop, or finds the queue empty and returns
LoopStep ==
    pc = "loop" =>
        \/ /\ pc' = "loop"
           /\ queue # <<>>
           /\ Cardinality(Unexpanded') < Cardinality(Unexpanded)
        \/ /\ pc' = "extract"
           /\ queue = <<>> /\ queue' = <<>>
           /\ results' = results

\* C12 Bounded search: on every well-formed tree the queue loop terminates
\* with an empty queue: every turn of the loop lowers the number of nodes
\* not yet expanded, and the loop is left only with the queue empty; each
\* node is enqueued at most once and decided at most once, and no proper
\* descendant of a node that qualified or was pruned is evaluated or
\* enqueued.
C12_BoundedSearch == [](SearchBounded) /\ [][LoopStep]_vars

\* a run ended in which one internal node was expanded below the root and
\* another, with internal nodes below it, qualified or was pruned
C12_Witness ==
    /\ pc = "done"
    /\ \E v \in Nodes : ~IsRoot(v) /\ Logged(v, "expand")
    /\ \E i \in 1..Len(log) :
          /\ log[i].event \in {"qualifies", "skip"}
          /\ \E w \in Nodes : ~IsTipNode(w) /\ IsAncestor(log[i].node, w)

====
